---- MODULE Spec2Model ----
(***************************************************************************)
(* Assistente_PDF: the Streamlit session of src/app/main.py (upload,       *)
(* content-hash cache key, indexing) and the chat turn of                  *)
(* src/app/chat/assistente_dana.py (greeting, name capture, intent router, *)
(* context assembly, compaction, LLM call).                                *)
(*                                                                         *)
(* Text.  A Python str is a sequence of characters; a character is a       *)
(* one-character string, and a letter carrying an acute accent is written  *)
(* as the two-character token <letter>' (a' is U+00E1, e' is U+00E9).      *)
(* Page text, which has to reach the 5200-character budget, is kept        *)
(* run-length encoded: a sequence of runs [ch |-> c, n |-> k], k >= 1.     *)
(***************************************************************************)
EXTENDS Integers, Sequences, FiniteSets, TLC

VARIABLES
    app_lang,               \* st.session_state["app_lang"]
    user_name,              \* st.session_state["user_name"]
    chat_history,           \* st.session_state["chat_history"]
    initial_greeting_done,  \* st.session_state["initial_greeting_done"]
    vectordb_key,           \* st.session_state["vectordb_key"]
    vectordb,               \* st.session_state["vectordb"]
    docs_paginas,           \* st.session_state["docs_paginas"]
    pdf_file,               \* the file held by the st.file_uploader widget
    pc,                     \* "idle", or "rerun" while st.rerun() is pending
    rendered,               \* the chat widgets of the last run are on screen
    nlang,                  \* how often the language was changed so far
    turn,                   \* what the last step of the run called and produced
    fn                      \* argument and result of a pure function under test

vars == <<app_lang, user_name, chat_history, initial_greeting_done,
          vectordb_key, vectordb, docs_paginas, pdf_file, pc, rendered,
          nlang, turn, fn>>

\* Optional[T]: None is the empty tuple, a value v is <<v>>
None == <<>>
Some(v) == <<v>>
IsNone(o) == o = <<>>
Val(o) == o[1]

(***************************************************************************)
(* Characters and strings                                                  *)
(***************************************************************************)
Chars(s) == [i \in 1..Len(s) |-> SubSeq(s, i, i)]

UpperAlphabet == Chars("ABCDEFGHIJKLMNOPQRSTUVWXYZ")
LowerAlphabet == Chars("abcdefghijklmnopqrstuvwxyz")
Digits == Chars("0123456789")

Range(f) == {f[i] : i \in DOMAIN f}

UpperLetters == Range(UpperAlphabet)
LowerLetters == Range(LowerAlphabet)
DigitChars == Range(Digits)

BaseOf(c) == SubSeq(c, 1, 1)

\* str.lower() on one character
LowerChar(c) ==
    IF BaseOf(c) \in UpperLetters
    THEN LowerAlphabet[CHOOSE i \in 1..26 : UpperAlphabet[i] = BaseOf(c)]
         \o SubSeq(c, 2, Len(c))
    ELSE c

lower(s) == [i \in 1..Len(s) |-> LowerChar(s[i])]

\* unicodedata.normalize("NFD", s).encode("ascii", "ignore").decode("ascii"):
\* an accented letter decomposes to its base letter and a combining mark,
\* and the mark, not being ASCII, is dropped
_normalize(s) == [i \in 1..Len(s) |-> BaseOf(s[i])]

IsDigit(c) == c \in DigitChars
IsSpace(c) == c \in {" ", "\t", "\n", "\r"}
\* \w of an ASCII-normalised string
IsWord(c) == \/ c \in LowerLetters \/ c \in UpperLetters
             \/ IsDigit(c) \/ c = "_"

DigitVal(c) == (CHOOSE i \in 1..10 : Digits[i] = c) - 1

RECURSIVE ParseInt(_)
\* int(m.group(1)) of a string of decimal digits
ParseInt(ds) ==
    IF Len(ds) = 0 THEN 0
    ELSE 10 * ParseInt(SubSeq(ds, 1, Len(ds) - 1)) + DigitVal(ds[Len(ds)])

Max(a, b) == IF a >= b THEN a ELSE b
Min(a, b) == IF a <= b THEN a ELSE b

IsPrefixAt(s, i, w) ==
    /\ i + Len(w) - 1 <= Len(s)
    /\ SubSeq(s, i, i + Len(w) - 1) = w

\* Python's "w in s"
Contains(s, w) == \E i \in 1..(Len(s) - Len(w) + 1) : IsPrefixAt(s, i, w)

(***************************************************************************)
(* Page references: LANG[..]["word_page_patterns"] and _extrair_pagina     *)
(*                                                                         *)
(* Every pattern of the table has the shape                                *)
(*     \b STEM (?:OPT)? \.? \s* (\d+) \b                                   *)
(* and is kept as [stem, opt]: stem is a sequence of character classes     *)
(* (p[a a']g is <<{"p"}, {"a", "a'"}, {"g"}>>), opt the optional group.    *)
(***************************************************************************)
Lit(s) == [i \in 1..Len(s) |-> {SubSeq(s, i, i)}]

PatPagPt   == [stem |-> <<{"p"}, {"a", "a'"}, {"g"}>>, opt |-> Lit("ina")]
PatPaginaPt == [stem |-> <<{"p"}, {"a", "a'"}, {"g"}>> \o Lit("ina"), opt |-> <<>>]
PatPagina  == [stem |-> Lit("pagina"), opt |-> <<>>]
PatPag     == [stem |-> Lit("pag"), opt |-> <<>>]
PatPage    == [stem |-> Lit("page"), opt |-> <<>>]
PatPg      == [stem |-> Lit("pg"), opt |-> <<>>]

Langs == {"pt", "it", "en"}

\* LANG[lang]["word_page_patterns"]
word_page_patterns(lang) ==
    CASE lang = "it" -> <<PatPagina, PatPag>>
      [] lang = "en" -> <<PatPage, PatPg>>
      [] OTHER       -> <<PatPagPt, PatPaginaPt>>

\* _normalize(pat): every character of the pattern text is normalised
NormalizePat(pat) ==
    [stem |-> [i \in 1..Len(pat.stem) |-> {BaseOf(c) : c \in pat.stem[i]}],
     opt  |-> [i \in 1..Len(pat.opt)  |-> {BaseOf(c) : c \in pat.opt[i]}]]

\* the classes cs match s at i, ignoring case (flags=re.IGNORECASE)
ClassesAt(s, i, cs) ==
    /\ i + Len(cs) - 1 <= Len(s)
    /\ \A j \in 1..Len(cs) :
          LowerChar(s[i + j - 1]) \in {LowerChar(c) : c \in cs[j]}

\* \b between positions i-1 and i of s
BoundaryAt(s, i) ==
    LET before == i > 1 /\ i - 1 <= Len(s) /\ IsWord(s[i - 1])
        after  == i <= Len(s) /\ IsWord(s[i])
    IN before # after

RECURSIVE SkipWhile(_, _, _)
\* first position >= i of s whose character is not in the class (greedy * or +)
SkipWhile(s, i, isSpace) ==
    IF i <= Len(s) /\ (IF isSpace THEN IsSpace(s[i]) ELSE IsDigit(s[i]))
    THEN SkipWhile(s, i + 1, isSpace)
    ELSE i

\* (\d+) \b from position d0: the captured digits up to d1, or None.  Inside
\* a run of digits there is no \b, so only the whole run can be captured.
DigitsAt(s, d0, d1) ==
    IF d1 > d0 /\ BoundaryAt(s, d1) THEN Some(SubSeq(s, d0, d1 - 1)) ELSE None

\* \s* (\d+) \b from position j
NumberAt(s, d0) == DigitsAt(s, d0, SkipWhile(s, d0, FALSE))

\* \.? \s* (\d+) \b from position j, with the dot taken or not
TailAt(s, j, useDot) ==
    IF useDot
    THEN IF j <= Len(s) /\ s[j] = "." THEN NumberAt(s, SkipWhile(s, j + 1, TRUE))
         ELSE None
    ELSE NumberAt(s, SkipWhile(s, j, TRUE))

\* the first of four alternatives that succeeds
FirstOf(a, b, c, d) ==
    IF ~IsNone(a) THEN a ELSE IF ~IsNone(b) THEN b ELSE IF ~IsNone(c) THEN c ELSE d

\* (?:OPT)? \.? \s* (\d+) \b from position j, in the order backtracking tries
\* the alternatives: the group and the dot are greedy
AfterStem(s, j, opt) ==
    FirstOf(IF Len(opt) > 0 /\ ClassesAt(s, j, opt)
            THEN TailAt(s, j + Len(opt), TRUE) ELSE None,
            IF Len(opt) > 0 /\ ClassesAt(s, j, opt)
            THEN TailAt(s, j + Len(opt), FALSE) ELSE None,
            TailAt(s, j, TRUE),
            TailAt(s, j, FALSE))

\* the pattern matched with its first character at i: the captured digits of
\* the first alternative that succeeds
MatchAt(s, i, pat) ==
    IF BoundaryAt(s, i) /\ ClassesAt(s, i, pat.stem)
    THEN AfterStem(s, i + Len(pat.stem), pat.opt)
    ELSE None

\* the first entry of ms that is not None, or None
Leftmost(ms) ==
    IF \A i \in DOMAIN ms : IsNone(ms[i]) THEN None
    ELSE ms[CHOOSE i \in DOMAIN ms :
               ~IsNone(ms[i]) /\ \A k \in 1..(i - 1) : IsNone(ms[k])]

\* re.search(pat, s): group 1 of the leftmost match, or None
ReSearch(pat, s) == Leftmost([i \in 1..Len(s) |-> MatchAt(s, i, pat)])

\* int(m.group(1)) - 1 floored at 0 for a match m, else the next patterns
PageOrNext(m, rest) == IF ~IsNone(m) THEN Some(Max(ParseInt(Val(m)) - 1, 0)) ELSE rest

RECURSIVE ExtrairFrom(_, _, _)
\* the loop "for pat in patt_list" from its k-th pattern
ExtrairFrom(norm, patt_list, k) ==
    IF k > Len(patt_list) THEN None
    ELSE PageOrNext(ReSearch(NormalizePat(patt_list[k]), norm),
                    ExtrairFrom(norm, patt_list, k + 1))

\* the page as the user wrote it, for a parsed page r
OneBased(r) == IF IsNone(r) THEN None ELSE Some(Val(r) + 1)

\* mutant: the 1-based number is returned as it is
ExtrairPaginaOneBased(pergunta, patt_list) ==
    IF Len(pergunta) = 0 THEN None
    ELSE OneBased(ExtrairFrom(_normalize(lower(pergunta)), patt_list, 1))

\* _extrair_pagina(pergunta, patt_list) -> Optional[int]
_extrair_pagina(pergunta, patt_list) ==
    IF Len(pergunta) = 0 THEN None
    ELSE ExtrairFrom(_normalize(lower(pergunta)), patt_list, 1)

(***************************************************************************)
(* Page text (run-length encoded) and Document                             *)
(***************************************************************************)
Run(c, k) == [ch |-> c, n |-> k]

RECURSIVE TLen(_)
\* len(t)
TLen(t) == IF Len(t) = 0 THEN 0 ELSE Head(t).n + TLen(Tail(t))

RECURSIVE LStrip(_)
LStrip(t) == IF Len(t) > 0 /\ IsSpace(Head(t).ch) THEN LStrip(Tail(t)) ELSE t

RECURSIVE RStrip(_)
RStrip(t) ==
    IF Len(t) > 0 /\ IsSpace(t[Len(t)].ch)
    THEN RStrip(SubSeq(t, 1, Len(t) - 1))
    ELSE t

\* t.strip()
strip(t) == RStrip(LStrip(t))

RECURSIVE TTake(_, _)
\* t[:k]
TTake(t, k) ==
    IF k <= 0 \/ Len(t) = 0 THEN <<>>
    ELSE IF Head(t).n <= k
         THEN <<Head(t)>> \o TTake(Tail(t), k - Head(t).n)
         ELSE <<Run(Head(t).ch, k)>>

RECURSIVE TDrop(_, _)
\* t[k:]
TDrop(t, k) ==
    IF k <= 0 \/ Len(t) = 0 THEN t
    ELSE IF Head(t).n <= k
         THEN TDrop(Tail(t), k - Head(t).n)
         ELSE <<Run(Head(t).ch, Head(t).n - k)>> \o Tail(t)

\* "\n\n---\n\n"
Delimiter == <<Run("\n", 2), Run("-", 3), Run("\n", 2)>>

RECURSIVE join(_, _)
\* sep.join(parts)
join(sep, parts) ==
    IF Len(parts) = 0 THEN <<>>
    ELSE IF Len(parts) = 1 THEN parts[1]
    ELSE parts[1] \o sep \o join(sep, Tail(parts))

\* langchain Document: page_content and the metadata the code reads
Document(text, page, source) ==
    [page_content |-> text, metadata |-> [page |-> page, source |-> source]]

(***************************************************************************)
(* Context utilities                                                       *)
(***************************************************************************)
LIMITE_CHARS == 5200

RECURSIVE CompactarLoop(_, _, _, _, _)
\* the loop of _compactar_docs from unit i, with parts and total so far
CompactarLoop(docs, i, parts, total, limite_chars) ==
    IF i > Len(docs) THEN parts
    ELSE LET t == strip(docs[i].page_content)
         IN IF Len(t) = 0
            THEN CompactarLoop(docs, i + 1, parts, total, limite_chars)
            ELSE IF total + TLen(t) > limite_chars
                 THEN parts
                 ELSE CompactarLoop(docs, i + 1, Append(parts, t),
                                    total + TLen(t), limite_chars)

\* _compactar_docs(docs, limite_chars) -> str
_compactar_docs(docs, limite_chars) ==
    join(Delimiter, CompactarLoop(docs, 1, <<>>, 0, limite_chars))

\* mutant: the slice starts at the requested page
ContextoPorPaginaForward(paginas, pagina0, vizinhas) ==
    LET n == Len(paginas)
        end == Min(pagina0 + vizinhas, n - 1)
    IN [j \in 1..Max(end - pagina0 + 1, 0) |-> paginas[pagina0 + j]]

\* _contexto_por_pagina(docs_paginas, pagina0, vizinhas) -> List[Document]
_contexto_por_pagina(paginas, pagina0, vizinhas) ==
    LET n == Len(paginas)
    IN IF n = 0 THEN <<>>
       ELSE LET start == Max(pagina0 - vizinhas, 0)
                end   == Min(pagina0 + vizinhas, n - 1)
            IN \* range(start, end + 1) over 0-based indices
               [j \in 1..Max(end - start + 1, 0) |-> paginas[start + j]]

\* mutant: any unit counts as text
TemTextoNonEmpty(docs) == Len(docs) > 0

\* _tem_texto(docs) -> bool
_tem_texto(docs) ==
    \E i \in 1..Len(docs) : Len(strip(docs[i].page_content)) > 0

\* (d.metadata.get("page", "?"), d.metadata.get("source", ...)) for d in docs
InfoSources(docs) ==
    [i \in 1..Len(docs) |-> <<docs[i].metadata.page, docs[i].metadata.source>>]

(***************************************************************************)
(* Index: chunks, the two retrievers and their query                       *)
(***************************************************************************)
CHUNK_SIZE == 1000
CHUNK_OVERLAP == 150
RETRIEVER_K == 6

RECURSIVE Windows(_, _, _)
\* the windows of a text longer than size: each starts overlap characters
\* before the end of the previous one
Windows(t, size, overlap) ==
    IF TLen(t) <= size THEN <<t>>
    ELSE <<TTake(t, size)>> \o Windows(TDrop(t, size - overlap), size, overlap)

\* the windows w of page d as chunks: each keeps the metadata of the page
ChunksOf(w, d) ==
    [i \in 1..Len(w) |-> Document(w[i], d.metadata.page, d.metadata.source)]

\* the chunks RecursiveCharacterTextSplitter makes of one page: none of a
\* blank page, the stripped text when it fits, else overlapping windows
SplitPage(d, size, overlap) ==
    IF Len(strip(d.page_content)) = 0 THEN <<>>
    ELSE ChunksOf(Windows(strip(d.page_content), size, overlap), d)

RECURSIVE _splitar(_, _, _)
\* _splitar(docs, chunk_size, overlap) -> List[Document]
_splitar(docs, size, overlap) ==
    IF Len(docs) = 0 THEN <<>>
    ELSE SplitPage(Head(docs), size, overlap) \o _splitar(Tail(docs), size, overlap)

\* The order in which a retriever ranks its n chunks is the library's; the
\* model lets it be any rotation of the chunk order.
Rankings(n) == IF n = 0 THEN {0} ELSE 0..(n - 1)

\* retriever.invoke(query): the k best chunks, best first
Invoke(retriever, k, rot) ==
    LET n == Len(retriever.chunks)
    IN [i \in 1..Min(k, n) |-> retriever.chunks[((i - 1 + rot) % n) + 1]]

\* what _montar_contexto returns, (docs, info, pagina0), with what it did:
\* queried and parsed record whether the retriever was invoked and whether
\* the question was parsed
Contexto(docs, pagina0, queried, parsed) ==
    [docs |-> docs, info |-> InfoSources(docs), pagina0 |-> pagina0,
     queried |-> queried, parsed |-> parsed]

\* lines 399-420: the context of the resolved page pagina0, or of retrieval
ContextoDe(pagina0, paginas, retriever, k, incluir_vizinhas, rot, parsed) ==
    IF ~IsNone(pagina0)
    THEN IF 0 <= Val(pagina0) /\ Val(pagina0) < Len(paginas)
         THEN Contexto(_contexto_por_pagina(paginas, Val(pagina0), incluir_vizinhas),
                       pagina0, FALSE, parsed)
         ELSE Contexto(<<>>, pagina0, FALSE, parsed)
    ELSE Contexto(Invoke(retriever, IF retriever.has_invoke THEN retriever.k ELSE k, rot),
                  None, TRUE, parsed)

\* mutant: a page named in the question overrides the forced page
Pagina0QuestionFirst(pergunta, pagina_forcada, patt_list) ==
    IF Len(pergunta) > 0 /\ ~IsNone(_extrair_pagina(pergunta, patt_list))
    THEN _extrair_pagina(pergunta, patt_list)
    ELSE pagina_forcada

\* lines 395-397: pagina0 = pagina_forcada, or parsed from the question
Pagina0(pergunta, pagina_forcada, patt_list) ==
    IF IsNone(pagina_forcada) /\ Len(pergunta) > 0
    THEN _extrair_pagina(pergunta, patt_list)
    ELSE pagina_forcada

Clamp(pagina0, n) ==
    IF IsNone(pagina0) THEN None ELSE Some(Min(Val(pagina0), n - 1))

\* mutant: an out-of-range page is clamped to the last page
MontarContextoClamp(pergunta, paginas, retriever, k, incluir_vizinhas, pagina_forcada, patt_list, rot) ==
    ContextoDe(Clamp(Pagina0(pergunta, pagina_forcada, patt_list), Len(paginas)),
               paginas, retriever, k, incluir_vizinhas, rot,
               IsNone(pagina_forcada) /\ Len(pergunta) > 0)

\* _montar_contexto(...) -> (docs, info, pagina0)
_montar_contexto(pergunta, paginas, retriever, k, incluir_vizinhas, pagina_forcada, patt_list, rot) ==
    ContextoDe(Pagina0(pergunta, pagina_forcada, patt_list),
               paginas, retriever, k, incluir_vizinhas, rot,
               IsNone(pagina_forcada) /\ Len(pergunta) > 0)

(***************************************************************************)
(* Name extraction and the intent router (character strings)               *)
(***************************************************************************)
RECURSIVE SLStrip(_)
SLStrip(s) == IF Len(s) > 0 /\ IsSpace(Head(s)) THEN SLStrip(Tail(s)) ELSE s

RECURSIVE SRStrip(_)
SRStrip(s) ==
    IF Len(s) > 0 /\ IsSpace(s[Len(s)])
    THEN SRStrip(SubSeq(s, 1, Len(s) - 1))
    ELSE s

\* s.strip() of a character string
sstrip(s) == SRStrip(SLStrip(s))

\* s.index(w) + len(w), 0-based, for a w that occurs in s
IndexAfter(s, w) ==
    (CHOOSE i \in 1..Len(s) :
        /\ IsPrefixAt(s, i, w)
        /\ \A k \in 1..(i - 1) : ~IsPrefixAt(s, k, w)) - 1 + Len(w)

MinOf(S) == CHOOSE x \in S : \A y \in S : x <= y

\* the position of the first whitespace of t, or one past its end
FirstSpace(t) ==
    IF \E i \in 1..Len(t) : IsSpace(t[i])
    THEN MinOf({i \in 1..Len(t) : IsSpace(t[i])})
    ELSE Len(t) + 1

RECURSIVE split(_)
\* s.split(): the maximal runs of non-whitespace characters
split(s) ==
    IF Len(SLStrip(s)) = 0 THEN <<>>
    ELSE <<SubSeq(SLStrip(s), 1, FirstSpace(SLStrip(s)) - 1)>>
         \o split(SubSeq(SLStrip(s), FirstSpace(SLStrip(s)), Len(SLStrip(s))))

\* the self-introduction phrases, in the order of the list "patterns"
NamePatterns ==
    << Chars("me chamo"),
       Chars("meu nome ") \o <<"e'">>,
       Chars("meu nome e"),
       Chars("eu sou"),
       Chars("mi chiamo"),
       Chars("sono"),
       Chars("my name is"),
       Chars("i am") >>

NamePunctuation == {",", ".", "!", "?", ";", ":"}

stopwords_iniciais ==
    { Chars("ola"), Chars("ol") \o <<"a'">>, Chars("oi"), Chars("ciao"),
      Chars("hello"), Chars("hi"), Chars("hey"), Chars("buongiorno"),
      Chars("buonasera"), Chars("bom"), Chars("boa") }

\* the phrases of the list that occur in the lower-cased input
PhrasesIn(low) == {k \in 1..Len(NamePatterns) : Contains(low, NamePatterns[k])}

\* original[idx:].strip() for the first phrase of the list that occurs
RecorteDe(original, low, hits) ==
    IF hits = {} THEN original
    ELSE sstrip(SubSeq(original, IndexAfter(low, NamePatterns[MinOf(hits)]) + 1,
                       Len(original)))

\* the text after the first phrase of the list found in the input
Recorte(original) == RecorteDe(original, lower(original), PhrasesIn(lower(original)))

\* recorte.replace(ch, " ") for every punctuation mark of the list
Unpunctuate(rec) ==
    [i \in 1..Len(rec) |-> IF rec[i] \in NamePunctuation THEN " " ELSE rec[i]]

\* the words that are no greeting
NotStopwords(partes) ==
    {i \in 1..Len(partes) : lower(partes[i]) \notin stopwords_iniciais}

\* the first word that is no greeting, else the first word, else ""
PrimeiraPalavra(partes, keep) ==
    IF Len(partes) = 0 THEN <<>>
    ELSE IF keep = {} THEN partes[1]
    ELSE partes[MinOf(keep)]

PrimeiroNome(partes) == PrimeiraPalavra(partes, NotStopwords(partes))

\* _extrair_primeiro_nome(resposta) -> str
_extrair_primeiro_nome(resposta) ==
    IF Len(resposta) = 0 THEN <<>>
    ELSE PrimeiroNome(split(Unpunctuate(Recorte(sstrip(resposta)))))

pads_pag ==
    { Chars("quantas paginas"), Chars("quantas p") \o <<"a'">> \o Chars("ginas"),
      Chars("numero de paginas"), Chars("numero de p") \o <<"a'">> \o Chars("ginas"),
      <<"n", "u'">> \o Chars("mero de paginas"),
      <<"n", "u'">> \o Chars("mero de p") \o <<"a'">> \o Chars("ginas"),
      Chars("total de paginas"), Chars("total de p") \o <<"a'">> \o Chars("ginas"),
      Chars("quante pagine"), Chars("numero di pagine"), Chars("numero pagine"),
      Chars("totale pagine"),
      Chars("how many pages"), Chars("number of pages"), Chars("total pages"),
      Chars("page count") }

pads_nome ==
    { Chars("nome do arquivo"), Chars("nome do ficheiro"), Chars("nome do pdf"),
      Chars("come si chiama il file"), Chars("nome del file"), Chars("nome del pdf"),
      Chars("file name"), Chars("name of the file"), Chars("pdf name"),
      Chars("name of the pdf") }

\* detectar_intencao(pergunta) -> "contar_paginas" | "nome_pdf" | "normal"
detectar_intencao(pergunta) ==
    IF Len(pergunta) = 0 THEN "normal"
    ELSE LET p == _normalize(lower(pergunta))
         IN IF \E w \in pads_pag : Contains(p, w) THEN "contar_paginas"
            ELSE IF \E w \in pads_nome : Contains(p, w) THEN "nome_pdf"
            ELSE "normal"

(***************************************************************************)
(* Theme detection: _detectar_tema_pdf                                     *)
(*                                                                         *)
(* The function reads single characters of the first pages, so the page    *)
(* text it is given here is a plain character string.  The em dash U+2014  *)
(* of the separator is the one-character token "--".                       *)
(***************************************************************************)
TEMA_PLACEHOLDER == Chars("tema do PDF / tema del PDF / theme of the PDF")

TEMA_SEPARATOR == <<" ", "--", " ">>

MAX_TEMA_PAGES == 5
MAX_TEMA_LINES == 40
MIN_LINE_LEN == 5
MAX_LINE_LEN == 120

lixo ==
    { Chars("via "), Chars("s.r.l"), Chars("srl"), Chars("s.p.a"), Chars("spa"),
      Chars("lumezzane"), Chars("automazioni industriali"),
      Chars("@"), Chars(".it"), Chars(".com"), Chars("tel."), Chars("fax") }

palavras_titulo ==
    { Chars("manuale"), Chars("manuale d'uso"), Chars("manuale applicativo"),
      Chars("robot"), Chars("motoman"), Chars("applicativo"), Chars("uso"),
      Chars("introduzione"), Chars("user manual"), Chars("operation manual"),
      Chars("guia"), Chars("manual") }

\* ch.isalnum() and ch.isupper(): an accented letter is a letter
IsAlnum(c) ==
    \/ BaseOf(c) \in LowerLetters \/ BaseOf(c) \in UpperLetters \/ IsDigit(c)
IsUpper(c) == BaseOf(c) \in UpperLetters

IsLineBreak(c) == c \in {"\n", "\r"}

\* the position of the first line break of s, or one past its end
FirstBreak(s) ==
    IF \E i \in 1..Len(s) : IsLineBreak(s[i])
    THEN MinOf({i \in 1..Len(s) : IsLineBreak(s[i])})
    ELSE Len(s) + 1

\* where the line after the break at k starts: "\r\n" is one break
AfterBreak(s, k) ==
    IF k + 1 <= Len(s) /\ s[k] = "\r" /\ s[k + 1] = "\n" THEN k + 2 ELSE k + 1

RECURSIVE splitlines(_)
\* s.splitlines()
splitlines(s) ==
    IF Len(s) = 0 THEN <<>>
    ELSE <<SubSeq(s, 1, FirstBreak(s) - 1)>>
         \o splitlines(SubSeq(s, AfterBreak(s, FirstBreak(s)), Len(s)))

NonBlank(ln) == Len(sstrip(ln)) > 0

\* [ln.strip() for ln in text.splitlines() if ln.strip()]
StripAll(lns) == [i \in 1..Len(lns) |-> sstrip(lns[i])]
LinesOf(text) == StripAll(SelectSeq(splitlines(text), NonBlank))

\* sum(ch.isalnum() for ch in ln) < len(ln) * 0.4
MostlyNotAlnum(ln) ==
    Cardinality({i \in 1..Len(ln) : IsAlnum(ln[i])}) * 10 < Len(ln) * 4

\* the noise filters of lines 294-309
IsNoise(ln) ==
    \/ Len(ln) < MIN_LINE_LEN \/ Len(ln) > MAX_LINE_LEN
    \/ MostlyNotAlnum(ln)
    \/ Cardinality(Range(ln) \ {" "}) = 1
    \/ \E w \in lixo : Contains(lower(_normalize(ln)), w)

\* lines 311-328: a title word, or a capitalised line with a space in it
IsTitleLike(ln) ==
    \/ \E w \in palavras_titulo : Contains(lower(_normalize(ln)), w)
    \/ (IsUpper(ln[1]) /\ " " \in Range(ln))

IsCandidate(ln) == ~IsNoise(ln) /\ IsTitleLike(ln)

\* the lines one page adds to candidates
PageCandidates(text) ==
    IF Len(sstrip(text)) = 0 THEN <<>>
    ELSE SelectSeq(SubSeq(LinesOf(sstrip(text)), 1,
                          Min(MAX_TEMA_LINES, Len(LinesOf(sstrip(text))))),
                   IsCandidate)

RECURSIVE Candidates(_, _, _)
\* the loop "for i in range(max_pages)" from page i (1-based)
Candidates(docs, i, max_pages) ==
    IF i > max_pages THEN <<>>
    ELSE PageCandidates(docs[i].page_content) \o Candidates(docs, i + 1, max_pages)

RECURSIVE UniqFrom(_, _)
\* lines 334-339: duplicates removed, the order kept
UniqFrom(cs, seen) ==
    IF Len(cs) = 0 THEN <<>>
    ELSE IF Head(cs) \in seen THEN UniqFrom(Tail(cs), seen)
    ELSE <<Head(cs)>> \o UniqFrom(Tail(cs), seen \cup {Head(cs)})

\* mutant: duplicates are kept
UniqKeepsDuplicates(cs) == cs

Uniq(cs) == UniqFrom(cs, {})

RECURSIVE sjoin(_, _)
\* sep.join(parts) of character strings
sjoin(sep, parts) ==
    IF Len(parts) = 0 THEN <<>>
    ELSE IF Len(parts) = 1 THEN parts[1]
    ELSE parts[1] \o sep \o sjoin(sep, Tail(parts))

\* lines 330-343 for the candidates found
TemaDe(uniq) ==
    IF Len(sjoin(TEMA_SEPARATOR, SubSeq(uniq, 1, Min(2, Len(uniq))))) = 0
    THEN TEMA_PLACEHOLDER
    ELSE sjoin(TEMA_SEPARATOR, SubSeq(uniq, 1, Min(2, Len(uniq))))

\* _detectar_tema_pdf(docs_paginas) -> str
_detectar_tema_pdf(paginas) ==
    IF Len(paginas) = 0 THEN TEMA_PLACEHOLDER
    ELSE TemaDe(Uniq(Candidates(paginas, 1, Min(MAX_TEMA_PAGES, Len(paginas)))))

(***************************************************************************)
(* Uploaded files, the content hash and indexar_pdf                        *)
(***************************************************************************)
\* The PDFs a user of the model uploads: a file name and the bytes.
Files ==
    { [name |-> "manual.pdf", bytes |-> "b1"],
      [name |-> "scan.pdf",   bytes |-> "b2"],
      [name |-> "broken.pdf", bytes |-> "b3"],
      [name |-> "long.pdf",   bytes |-> "b4"] }

\* what PyPDFLoader(pdf_path).load() extracts from the bytes, one text per
\* page; ok is FALSE when the bytes are not a parseable PDF
PdfOf(bytes) ==
    CASE bytes = "b1" ->
           [ok |-> TRUE,
            texts |-> << <<Run("T", 1), Run("x", 39), Run("\n", 1)>>,
                         <<Run(" ", 2)>>,
                         <<Run("y", 2600)>> >>]
      [] bytes = "b2" ->
           [ok |-> TRUE, texts |-> << <<>>, <<Run(" ", 1), Run("\n", 1)>> >>]
      [] bytes = "b4" ->
           [ok |-> TRUE,
            texts |-> << <<Run("p", 5300)>>,
                         <<Run("q", 3000), Run("\n", 1)>>,
                         <<Run("r", 2600)>> >>]
      [] OTHER -> [ok |-> FALSE, texts |-> <<>>]

\* _hash_bytes(raw): the SHA-256 hex digest, one digest per content
_hash_bytes(bytes) ==
    CASE bytes = "b1" -> "sha256-9f2c"
      [] bytes = "b2" -> "sha256-41d7"
      [] bytes = "b4" -> "sha256-77ab"
      [] OTHER        -> "sha256-c0e8"

\* _carregar_paginas(pdf_path): one Document per page, page 0-based, source
\* the file name (setdefault keeps the loader's source, which is the path the
\* file was written to: its name)
_carregar_paginas(file) ==
    LET texts == PdfOf(file.bytes).texts
    IN [i \in 1..Len(texts) |-> Document(texts[i], i - 1, file.name)]

\* The environment of one indexing call: whether OPENAI_API_KEY is set,
\* whether OpenAIEmbeddings(...) can be constructed, and whether the chunk
\* vectors can be computed (network, quota).
Envs ==
    { [key |-> FALSE, ctor_ok |-> TRUE,  embed_ok |-> TRUE],
      [key |-> TRUE,  ctor_ok |-> FALSE, embed_ok |-> TRUE],
      [key |-> TRUE,  ctor_ok |-> TRUE,  embed_ok |-> TRUE],
      [key |-> TRUE,  ctor_ok |-> TRUE,  embed_ok |-> FALSE] }

\* mutant: embeddings are attempted without a credential
TentarEmbeddingsNoKeyCheck(env) == env.ctor_ok

\* _tentar_embeddings(): TRUE when an OpenAIEmbeddings object is returned,
\* FALSE for None
_tentar_embeddings(env) ==
    IF env.key THEN (IF env.ctor_ok THEN TRUE ELSE FALSE) ELSE FALSE

Retriever(kind, k, chunks) ==
    [kind |-> kind, k |-> k, chunks |-> chunks, has_invoke |-> TRUE]

NoResult ==
    [raised |-> "", retriever |-> Retriever("", 0, <<>>), n_pages |-> 0,
     n_chunks |-> 0, docs_paginas |-> <<>>]

\* return retriever, len(docs_paginas), len(chunks), docs_paginas
Returned(kind, paginas, chunks) ==
    [raised |-> "", retriever |-> Retriever(kind, RETRIEVER_K, chunks),
     n_pages |-> Len(paginas), n_chunks |-> Len(chunks), docs_paginas |-> paginas]

\* lines 56-66: the index over the chunks
IndexOf(paginas, chunks, env) ==
    IF _tentar_embeddings(env)
    THEN IF env.embed_ok
         THEN Returned("vector", paginas, chunks)
         ELSE \* InMemoryVectorStore.from_documents raises
              [NoResult EXCEPT !.raised = "embedding"]
    ELSE Returned("bm25", paginas, chunks)

\* lines 54-66 for the pages loaded
IndexPages(paginas, env) ==
    IndexOf(paginas, _splitar(paginas, CHUNK_SIZE, CHUNK_OVERLAP), env)

\* indexar_pdf(pdf_path) -> (retriever, n_pages, n_chunks, docs_paginas), or
\* the exception that leaves it: raised is "" on a normal return
indexar_pdf(file, env) ==
    IF PdfOf(file.bytes).ok
    THEN IndexPages(_carregar_paginas(file), env)
    ELSE \* PyPDFLoader(...).load() raises
         [NoResult EXCEPT !.raised = "parse"]

(***************************************************************************)
(* Chat messages                                                           *)
(*                                                                         *)
(* A history entry is {"role", "content"}; the content, a formatted string *)
(* in the code, is kept as the template that made it and the values put in *)
(* it: lang, text (the question or the name), name, file, page, total.     *)
(***************************************************************************)
Content(kind, lang, text, name, file, page, total) ==
    [kind |-> kind, lang |-> lang, text |-> text, name |-> name,
     file |-> file, page |-> page, total |-> total]

Msg(role, content) == [role |-> role, content |-> content]

first_msg(lang, file_name) ==
    Content("first_msg", lang, <<>>, <<>>, file_name, 0, 0)
NameReply(lang, nome, file_name) ==
    IF Len(nome) > 0
    THEN Content("name_reply", lang, <<>>, nome, file_name, 0, 0)
    ELSE Content("name_reply_anon", lang, <<>>, <<>>, "", 0, 0)
RawQuestion(pergunta) == Content("raw", "", pergunta, <<>>, "", 0, 0)
\* f"({uname}) {pergunta}"
NamedQuestion(uname, pergunta) == Content("question", "", pergunta, uname, "", 0, 0)
PageCountReply(lang, total) == Content("page_count", lang, <<>>, <<>>, "", 0, total)
FileNameReply(lang, file_name) == Content("file_name", lang, <<>>, <<>>, file_name, 0, 0)
\* L["ui_page_not_exist"].format(page=..., total=...)
ui_page_not_exist(lang, page, total) ==
    Content("ui_page_not_exist", lang, <<>>, <<>>, "", page, total)
ui_not_found(lang) == Content("ui_not_found", lang, <<>>, <<>>, "", 0, 0)
LlmAnswer == Content("llm_answer", "", <<>>, <<>>, "", 0, 0)
\* str(e) of the exception chain.invoke({}) raises
CompletionError == Chars("timeout")

\* mutant: the message leaves the reason out
ModelCallFailedNoReason == Content("model_call_failed", "", <<>>, <<>>, "", 0, 0)

\* f"Model call failed: {e}"
ModelCallFailed == Content("model_call_failed", "", CompletionError, <<>>, "", 0, 0)

(***************************************************************************)
(* Widget events                                                           *)
(***************************************************************************)
NoFile == [name |-> "", bytes |-> ""]

Event(kind, lang, file, pergunta, page_num, task) ==
    [kind |-> kind, lang |-> lang, file |-> file, pergunta |-> pergunta,
     page_num |-> page_num, task |-> task]

QuickTasks ==
    {"resumo_pagina", "resumo_documento", "glossario", "faq", "plano_estudo",
     "exercicios"}

\* the quick-task buttons the users of the model click
TasksClicked == {"resumo_pagina", "faq"}

\* what the users of the model type into st.chat_input: in reply to the
\* greeting's name question, and once the assistant knows their name
NameAnswers ==
    { Chars("Ana"),
      Chars("!"),
      Chars("how many pages?") }

Questions ==
    { Chars("turbine"),
      Chars("pagina 9"),
      Chars("see page 2"),
      Chars("how many pages?"),
      Chars("nome do PDF") }

RECURSIVE ToStr(_)
\* str(n) for n >= 0
ToStr(n) == IF n < 10 THEN <<Digits[n + 1]>>
            ELSE ToStr(n \div 10) \o <<Digits[(n % 10) + 1]>>

\* f"pagina {page_num}" if lang_code != "en" else f"page {page_num}"
PageQuestion(lang, page_num) ==
    (IF lang # "en" THEN Chars("pagina ") ELSE Chars("page ")) \o ToStr(page_num)

\* the question a quick-task button stands for when nothing was typed
TaskQuestion(task, lang, page_num) ==
    CASE task = "resumo_pagina" -> PageQuestion(lang, page_num)
      [] task = "resumo_documento" ->
           (IF lang = "pt" THEN Chars("resumo do documento")
            ELSE IF lang = "it" THEN Chars("riassunto del documento")
            ELSE Chars("document summary"))
      [] task = "glossario" ->
           (IF lang = "pt" THEN Chars("gloss") \o <<"a'">> \o Chars("rio")
            ELSE IF lang = "it" THEN Chars("glossario")
            ELSE Chars("glossary"))
      [] task = "faq" -> Chars("faq")
      [] task = "plano_estudo" ->
           (IF lang = "pt" THEN Chars("plano de estudo")
            ELSE IF lang = "it" THEN Chars("piano di studio")
            ELSE Chars("study plan"))
      [] OTHER ->
           (IF lang = "pt" THEN Chars("exerc") \o <<"i'">> \o Chars("cios")
            ELSE IF lang = "it" THEN Chars("esercizi")
            ELSE Chars("exercises"))

(***************************************************************************)
(* The record of a run: what it called and what it produced                *)
(***************************************************************************)
NoEnv == [key |-> FALSE, ctor_ok |-> FALSE, embed_ok |-> FALSE]

TurnDefault ==
    [event |-> "init",
     \* main.py, lines 70-101; mid is the conversation state they leave
     uploaded |-> FALSE, need_index |-> FALSE, conv_reset |-> FALSE,
     indexar_calls |-> 0, env |-> NoEnv, result |-> NoResult,
     mid |-> [chat_history |-> <<>>, user_name |-> <<>>,
              initial_greeting_done |-> FALSE],
     \* iniciar_assistente
     assistant |-> FALSE, branch |-> "", greeted |-> FALSE, pergunta |-> <<>>, quick_task |-> "",
     pagina_forcada |-> None, classified |-> FALSE, intencao |-> "",
     montar_called |-> FALSE, queried |-> FALSE, parsed |-> FALSE,
     pagina0 |-> None, docs |-> <<>>, info_sources |-> <<>>,
     compactar_called |-> FALSE, contexto |-> <<>>,
     llm_built |-> FALSE, llm_invoked |-> FALSE, sources_shown |-> <<>>]

(***************************************************************************)
(* main.py, lines 70-101: the upload block                                 *)
(***************************************************************************)
MaxHist == 5
MaxLangChanges == 1

\* mutant: every run with a file re-indexes
NeedIndexAlways(key, cache_key) == TRUE

\* need_index = (st.session_state.get("vectordb_key") != cache_key)
NeedIndex(key, cache_key) == key # Some(cache_key)

\* the session_state entries the upload block and the assistant work on
Session ==
    [chat_history |-> chat_history, user_name |-> user_name,
     initial_greeting_done |-> initial_greeting_done,
     vectordb_key |-> vectordb_key, vectordb |-> vectordb,
     docs_paginas |-> docs_paginas]

\* mutant: the history survives the change of document
ResetConversationKeepsHistory(S) ==
    [S EXCEPT !.initial_greeting_done = FALSE, !.user_name = <<>>]

\* lines 85-87
ResetConversation(S) ==
    [S EXCEPT !.chat_history = <<>>, !.initial_greeting_done = FALSE,
              !.user_name = <<>>]

\* lines 94-97 with r what indexar_pdf did: when it raised, the exception
\* ends the run and session_state keeps what was assigned before it
StoreIndex(S, r, cache_key) ==
    IF r.raised # "" THEN S
    ELSE [S EXCEPT !.vectordb = Some(r.retriever),
                   !.docs_paginas = r.docs_paginas,
                   !.vectordb_key = Some(cache_key)]

\* lines 83-101 from the session S already reset
Reindex(S, r, cache_key) ==
    [need_index |-> TRUE, conv_reset |-> TRUE, indexar_calls |-> 1,
     result |-> r, S |-> StoreIndex(S, r, cache_key)]

\* lines 70-101 with the file f in the uploader, from the session S: the
\* session they leave, and whether indexar_pdf was called and raised
UploadBlock(S, f, env) ==
    IF NeedIndex(S.vectordb_key, _hash_bytes(f.bytes))
    THEN Reindex(ResetConversation(S), indexar_pdf(f, env), _hash_bytes(f.bytes))
    ELSE [need_index |-> FALSE, conv_reset |-> FALSE, indexar_calls |-> 0,
          result |-> NoResult, S |-> S]

(***************************************************************************)
(* iniciar_assistente                                                      *)
(***************************************************************************)
K_FIXO == 6
INCLUIR_VIZINHAS == 1

\* how make_llm() and chain.invoke({}) end: no GROQ_API_KEY, an answer, or an
\* exception of the completion service
LlmOutcomes == {"no_key", "ok", "fail"}

\* docs_paginas[0].metadata.get("source") or ... or "PDF"
FileName(paginas) ==
    IF paginas[1].metadata.source # "" THEN paginas[1].metadata.source ELSE "PDF"

\* int(pag) + 1 for every (pag, src) shown under "ui_sources"
SourcesShown(info) == [i \in 1..Len(info) |-> <<info[i][1] + 1, info[i][2]>>]

\* the run ends: the session S is what session_state holds from now on
Out(S, hist, name, greeted, next_pc, shown, t) ==
    /\ chat_history' = hist
    /\ user_name' = name
    /\ initial_greeting_done' = greeted
    /\ vectordb_key' = S.vectordb_key
    /\ vectordb' = S.vectordb
    /\ docs_paginas' = S.docs_paginas
    /\ pc' = next_pc
    /\ rendered' = shown
    /\ turn' = t

\* lines 768-862: the question is in the history; context, compaction, LLM
Answer(S, lang, hist, t, pergunta, quick_task, pagina_forcada) ==
    \E rot \in Rankings(Len(Val(S.vectordb).chunks)) :
    \E m \in {_montar_contexto(pergunta, S.docs_paginas, Val(S.vectordb), K_FIXO,
                               INCLUIR_VIZINHAS, pagina_forcada,
                               word_page_patterns(lang), rot)} :
    LET total == Len(S.docs_paginas)
        t1 == [t EXCEPT !.montar_called = TRUE, !.queried = m.queried,
                        !.parsed = m.parsed, !.pagina0 = m.pagina0,
                        !.docs = m.docs, !.info_sources = m.info]
    IN IF ~IsNone(m.pagina0) /\ (Val(m.pagina0) < 0 \/ Val(m.pagina0) >= total)
       THEN Out(S, Append(hist, Msg("assistant",
                       ui_page_not_exist(lang, Val(m.pagina0) + 1, total))),
                S.user_name, TRUE, "idle", TRUE,
                [t1 EXCEPT !.branch = "page_not_exist"])
       ELSE IF Len(m.docs) = 0 \/ ~_tem_texto(m.docs)
       THEN Out(S, Append(hist, Msg("assistant", ui_not_found(lang))),
                S.user_name, TRUE, "idle", TRUE,
                [t1 EXCEPT !.branch = "not_found"])
       ELSE \E contexto \in {_compactar_docs(m.docs, LIMITE_CHARS)} :
            LET t2 == [t1 EXCEPT !.compactar_called = TRUE, !.contexto = contexto]
            IN \E llm \in LlmOutcomes :
               IF llm = "no_key"
               THEN \* make_llm() raised: st.error(...) and return
                    Out(S, hist, S.user_name, TRUE, "idle", TRUE,
                        [t2 EXCEPT !.branch = "llm_init_error"])
               ELSE Out(S, Append(hist, Msg("assistant",
                               IF llm = "ok" THEN LlmAnswer ELSE ModelCallFailed)),
                        S.user_name, TRUE, "idle", TRUE,
                        [t2 EXCEPT !.branch = IF llm = "ok" THEN "answered"
                                                ELSE "model_call_failed",
                                   !.llm_built = TRUE, !.llm_invoked = TRUE,
                                   !.sources_shown = SourcesShown(m.info)])

\* mutant: the question goes to context assembly whatever its intent
RouteRetrievalFirst(S, e, lang, file_name, hist, t) ==
    LET pergunta == IF e.kind = "chat" THEN e.pergunta
                    ELSE PageQuestion(lang, e.page_num)
        pagina_forcada == IF e.kind \in {"go", "quick"} THEN Some(e.page_num - 1)
                          ELSE None
    IN IF e.kind \notin {"chat", "go", "quick"}
       THEN Out(S, hist, S.user_name, TRUE, "idle", TRUE,
                [t EXCEPT !.branch = "no_input"])
       ELSE Answer(S, lang,
                   Append(hist, Msg("user", NamedQuestion(S.user_name, pergunta))),
                   [t EXCEPT !.pergunta = pergunta, !.classified = TRUE,
                             !.intencao = detectar_intencao(pergunta)],
                   pergunta, "", pagina_forcada)

\* lines 672-766: buttons, the intent router, the question into the history
Route(S, e, lang, file_name, hist, t) ==
    LET typed == IF e.kind = "chat" THEN e.pergunta ELSE <<>>
        go_btn == e.kind = "go"
        quick_task == IF e.kind = "quick" THEN e.task ELSE ""
        pagina_forcada ==
            IF quick_task = "resumo_pagina" \/ (go_btn /\ quick_task = "")
            THEN Some(e.page_num - 1) ELSE None
        pergunta ==
            IF go_btn THEN PageQuestion(lang, e.page_num)
            ELSE IF quick_task # "" /\ Len(typed) = 0
                 THEN TaskQuestion(quick_task, lang, e.page_num)
                 ELSE typed
        t1 == [t EXCEPT !.pergunta = pergunta, !.quick_task = quick_task,
                        !.pagina_forcada = pagina_forcada]
    IN IF Len(pergunta) = 0 /\ quick_task = ""
       THEN Out(S, hist, S.user_name, TRUE, "idle", TRUE,
                [t1 EXCEPT !.branch = "no_input"])
       ELSE \E intencao \in {detectar_intencao(pergunta)} :
            LET t2 == [t1 EXCEPT !.classified = TRUE, !.intencao = intencao]
            IN IF intencao = "contar_paginas"
               THEN Out(S, Append(hist, Msg("assistant",
                               PageCountReply(lang, Len(S.docs_paginas)))),
                        S.user_name, TRUE, "idle", TRUE,
                        [t2 EXCEPT !.branch = "contar_paginas"])
               ELSE IF intencao = "nome_pdf"
               THEN Out(S, Append(hist, Msg("assistant", FileNameReply(lang, file_name))),
                        S.user_name, TRUE, "idle", TRUE,
                        [t2 EXCEPT !.branch = "nome_pdf"])
               ELSE Answer(S, lang,
                           Append(hist, Msg("user", NamedQuestion(S.user_name, pergunta))),
                           t2, pergunta, quick_task, pagina_forcada)

\* mutant: the clear button also forgets which document is indexed
ClearHistoryDropsIndex(S) ==
    [S EXCEPT !.chat_history = <<>>, !.initial_greeting_done = FALSE,
              !.user_name = <<>>, !.vectordb_key = None]

\* the clear-history button of the sidebar: three SAFE_SET calls on the
\* conversation keys, nothing else of the session is written
clear_history(S) ==
    [S EXCEPT !.chat_history = <<>>, !.initial_greeting_done = FALSE,
              !.user_name = <<>>]

\* mutant: a recognised question is routed instead of taken as the name
CapturaNomeUnlessIntent(pergunta, nome) ==
    Len(pergunta) > 0 /\ Len(nome) = 0 /\ detectar_intencao(pergunta) = "normal"

\* "Primeira mensagem, captura nome": the gate in front of the routing, a
\* typed message while the stored name nome is empty
CapturaNome(pergunta, nome) ==
    Len(pergunta) > 0 /\ Len(nome) = 0

\* iniciar_assistente(st, vectordb, docs_paginas, ...) on the session S, in
\* the run the event e triggered, in language lang
iniciar_assistente(S, e, lang, t) ==
    LET t0 == [t EXCEPT !.assistant = TRUE]
    IN IF IsNone(S.vectordb)
       THEN Out(S, S.chat_history, S.user_name, S.initial_greeting_done, "idle", FALSE,
                [t0 EXCEPT !.branch = "ui_not_indexed"])
       ELSE IF Len(S.docs_paginas) = 0
       THEN Out(S, S.chat_history, S.user_name, S.initial_greeting_done, "idle", FALSE,
                [t0 EXCEPT !.branch = "ui_no_pages"])
       ELSE LET file_name == FileName(S.docs_paginas) IN
            IF e.kind = "clear"
            THEN \* the clear-history button: reset, then st.rerun()
                 Out(clear_history(S), clear_history(S).chat_history,
                     clear_history(S).user_name, clear_history(S).initial_greeting_done,
                     "rerun", TRUE, [t0 EXCEPT !.branch = "clear"])
            ELSE LET greet == ~S.initial_greeting_done
                     hist  == IF greet
                              THEN Append(S.chat_history,
                                          Msg("assistant", first_msg(lang, file_name)))
                              ELSE S.chat_history
                     t1    == [t0 EXCEPT !.greeted = greet]
                     typed == IF e.kind = "chat" THEN e.pergunta ELSE <<>>
                 IN IF CapturaNome(typed, S.user_name)
                    THEN \* the first typed message is the answer to the name question
                         \E nome_extraido \in {_extrair_primeiro_nome(typed)} :
                            Out(S, hist \o << Msg("user", RawQuestion(typed)),
                                              Msg("assistant",
                                                  NameReply(lang, nome_extraido, file_name)) >>,
                                IF Len(nome_extraido) > 0 THEN nome_extraido
                                ELSE S.user_name,
                                TRUE, "idle", TRUE,
                                [t1 EXCEPT !.branch = "name", !.pergunta = typed])
                    ELSE Route(S, e, lang, file_name, hist, t1)

(***************************************************************************)
(* main.py: one run of the script, triggered by the widget event e         *)
(***************************************************************************)
MainScript(e) ==
    LET lang_code == IF e.kind = "lang" THEN e.lang ELSE app_lang
        file == IF e.kind = "upload" THEN Some(e.file) ELSE pdf_file
        t0 == [TurnDefault EXCEPT !.event = e.kind]
    IN /\ app_lang' = lang_code
       /\ pdf_file' = file
       /\ nlang' = IF e.kind = "lang" THEN nlang + 1 ELSE nlang
       /\ UNCHANGED fn
       /\ IF IsNone(file)
          THEN \* st.info(...): nothing else runs
               Out(Session, chat_history, user_name, initial_greeting_done,
                   "idle", FALSE, t0)
          ELSE \E env \in (IF NeedIndex(vectordb_key, _hash_bytes(Val(file).bytes))
                           THEN Envs ELSE {NoEnv}) :
               \E u \in {UploadBlock(Session, Val(file), env)} :
               LET t == [t0 EXCEPT !.uploaded = TRUE, !.need_index = u.need_index,
                                   !.conv_reset = u.conv_reset,
                                   !.indexar_calls = u.indexar_calls,
                                   !.env = env, !.result = u.result,
                                   !.mid = [chat_history |-> u.S.chat_history,
                                            user_name |-> u.S.user_name,
                                            initial_greeting_done |->
                                                u.S.initial_greeting_done]]
               IN IF u.result.raised # ""
                  THEN Out(u.S, u.S.chat_history, u.S.user_name,
                           u.S.initial_greeting_done, "idle", FALSE, t)
                  ELSE iniciar_assistente(u.S, e, lang_code, t)

Upload(f) ==
    /\ pc = "idle"
    /\ MainScript(Event("upload", "", f, <<>>, 1, ""))

SelectLang(l) ==
    /\ pc = "idle"
    /\ l # app_lang
    /\ nlang < MaxLangChanges
    /\ MainScript(Event("lang", l, NoFile, <<>>, 1, ""))

Chat(q) ==
    /\ pc = "idle"
    /\ rendered
    /\ Len(chat_history) + 2 <= MaxHist
    /\ MainScript(Event("chat", "", NoFile, q, 1, ""))

GoPage(n) ==
    /\ pc = "idle"
    /\ rendered
    /\ Len(chat_history) + 2 <= MaxHist
    /\ MainScript(Event("go", "", NoFile, <<>>, n, ""))

QuickTask(task, n) ==
    /\ pc = "idle"
    /\ task \in QuickTasks
    /\ rendered
    /\ Len(chat_history) + 2 <= MaxHist
    /\ MainScript(Event("quick", "", NoFile, <<>>, n, task))

ClearHistory ==
    /\ pc = "idle"
    /\ rendered
    /\ MainScript(Event("clear", "", NoFile, <<>>, 1, ""))

\* st.rerun(): the script runs again at once, no widget triggered
Rerun ==
    /\ pc = "rerun"
    /\ MainScript(Event("rerun", "", NoFile, <<>>, 1, ""))

(***************************************************************************)
(* The session                                                             *)
(***************************************************************************)
FnIdle == [op |-> "none"]

Init ==
    /\ app_lang = "pt"
    /\ user_name = <<>>
    /\ chat_history = <<>>
    /\ initial_greeting_done = FALSE
    /\ vectordb_key = None
    /\ vectordb = None
    /\ docs_paginas = <<>>
    /\ pdf_file = None
    /\ pc = "idle"
    /\ rendered = FALSE
    /\ nlang = 0
    /\ turn = TurnDefault
    /\ fn = FnIdle

Next ==
    \/ \E f \in Files : Upload(f)
    \/ \E l \in Langs : SelectLang(l)
    \/ \E q \in (IF Len(user_name) = 0 THEN NameAnswers ELSE Questions) : Chat(q)
    \/ \E n \in 1..Len(docs_paginas) : GoPage(n)
    \/ \E task \in TasksClicked :
          \E n \in (IF task = "resumo_pagina" THEN 1..Len(docs_paginas) ELSE {1}) :
             QuickTask(task, n)
    \/ ClearHistory
    \/ Rerun

Spec == Init /\ [][Next]_vars

(***************************************************************************)
(* Properties of the session                                               *)
(***************************************************************************)
LastMsg == chat_history[Len(chat_history)]

\* the run that led to this state called nothing of the answer pipeline
NoPipeline ==
    /\ ~turn.compactar_called
    /\ ~turn.llm_built
    /\ ~turn.llm_invoked

\* C1: in every run with a file in the uploader, a content hash equal to the
\* cached key means indexar_pdf is not called and the upload block leaves the
\* history, the user name, the greeting flag, the index and the page list as
\* they were; a hash different from the cached key means indexar_pdf is called
\* exactly once and the upload block empties the history, clears the greeting
\* flag and clears the user name.
C1_ReindexIffHashDiffers ==
    [][ turn'.uploaded =>
          IF vectordb_key = Some(_hash_bytes(Val(pdf_file').bytes))
          THEN /\ turn'.indexar_calls = 0
               /\ turn'.mid = [chat_history |-> chat_history,
                               user_name |-> user_name,
                               initial_greeting_done |-> initial_greeting_done]
               /\ vectordb' = vectordb
               /\ docs_paginas' = docs_paginas
               /\ vectordb_key' = vectordb_key
          ELSE /\ turn'.indexar_calls = 1
               /\ turn'.mid = [chat_history |-> <<>>, user_name |-> <<>>,
                               initial_greeting_done |-> FALSE] ]_vars

\* the file of a conversation under way is uploaded again: nothing is indexed
C1_Witness ==
    /\ turn.event = "upload"
    /\ turn.indexar_calls = 0
    /\ Len(turn.mid.chat_history) > 1
    /\ Len(turn.mid.user_name) > 0

\* C2: after a run that reset the conversation for a newly uploaded document
\* while an earlier document was indexed, the cache key, the index and the
\* page list are those of the new document.
C2_AtomicReplacement ==
    (turn.uploaded /\ turn.conv_reset /\ ~IsNone(vectordb_key)) =>
        /\ vectordb_key = Some(_hash_bytes(Val(pdf_file).bytes))
        /\ docs_paginas = _carregar_paginas(Val(pdf_file))

\* C4: a question that names a page past the last one is not clamped and is
\* not retrieved for: no context, no citations, the page kept as asked, no
\* query of the index, the page-does-not-exist message with the 1-based page
\* and the total as the last message, and no compaction or LLM.
C4_OutOfRangePage ==
    LET asked == _extrair_pagina(turn.pergunta, word_page_patterns(app_lang))
        p0 == IF IsNone(turn.pagina_forcada) THEN asked ELSE turn.pagina_forcada
        N == Len(docs_paginas)
    IN (turn.montar_called /\ ~IsNone(p0) /\ ~(0 <= Val(p0) /\ Val(p0) < N)) =>
          /\ turn.docs = <<>>
          /\ turn.info_sources = <<>>
          /\ turn.pagina0 = p0
          /\ ~turn.queried
          /\ LastMsg = Msg("assistant", ui_page_not_exist(app_lang, Val(p0) + 1, N))
          /\ NoPipeline

\* page 9 of the three-page manual is asked for
C4_Witness ==
    /\ turn.branch = "page_not_exist"
    /\ turn.pagina0 = Some(8)
    /\ Len(docs_paginas) = 3
    /\ turn.parsed

AllBlank(docs) == \A i \in 1..Len(docs) : Len(strip(docs[i].page_content)) = 0

\* C7 as stated: whenever the assembled context is empty or blank, the last
\* message is the fixed not-found message and nothing was compacted or sent
\* to an LLM.
C7_EmptyContextAlwaysNotFound ==
    (turn.montar_called /\ AllBlank(turn.docs)) =>
        /\ LastMsg = Msg("assistant", ui_not_found(app_lang))
        /\ NoPipeline

\* C7: when the assembled context is empty or blank and the resolved page, if
\* any, is a page of the document, the last message is the fixed not-found
\* message and nothing was compacted or sent to an LLM; in every run with an
\* empty or blank context nothing is compacted or sent to an LLM.
C7_EmptyContextNotFound ==
    (turn.montar_called /\ AllBlank(turn.docs)) =>
        /\ NoPipeline
        /\ (IsNone(turn.pagina0) \/ Val(turn.pagina0) < Len(docs_paginas)) =>
              LastMsg = Msg("assistant", ui_not_found(app_lang))

\* the pages around a requested page of a scanned document are all blank
C7_Witness ==
    /\ turn.branch = "not_found"
    /\ Len(turn.docs) > 0
    /\ ~IsNone(turn.pagina0)

\* C8: a question classified contar_paginas or nome_pdf is answered from the
\* page count or the file name and the run calls neither _montar_contexto,
\* the index, the compaction nor the LLM; a run that assembles context has
\* classified its question normal.
C8_IntentBeforeRetrieval ==
    /\ (turn.classified /\ turn.intencao = "contar_paginas") =>
          /\ ~turn.montar_called /\ ~turn.queried /\ NoPipeline
          /\ LastMsg = Msg("assistant", PageCountReply(app_lang, Len(docs_paginas)))
    /\ (turn.classified /\ turn.intencao = "nome_pdf") =>
          /\ ~turn.montar_called /\ ~turn.queried /\ NoPipeline
          /\ LastMsg = Msg("assistant", FileNameReply(app_lang, Val(pdf_file).name))
    /\ turn.montar_called => (turn.classified /\ turn.intencao = "normal")

\* "how many pages?" typed once the name is known
C8_Witness ==
    /\ turn.intencao = "contar_paginas"
    /\ Len(user_name) > 0
    /\ LastMsg.content.total = 3

\* C9: a failure while the chunk vectors are computed is handled like a
\* missing credential: indexar_pdf returns a BM25 retriever and raises nothing.
C9_EmbeddingFailureFallsBack ==
    (turn.indexar_calls = 1 /\ PdfOf(Val(pdf_file).bytes).ok
       /\ turn.env.key /\ turn.env.ctor_ok /\ ~turn.env.embed_ok) =>
        /\ turn.result.raised = ""
        /\ turn.result.retriever.kind = "bm25"

C11_LlmFailureAlwaysRecorded ==
    [][ (turn'.compactar_called
           /\ turn'.branch \in {"llm_init_error", "model_call_failed"}) =>
          /\ pc' = "idle" /\ rendered'
          /\ Len(chat_history') = Len(chat_history) + 2
          /\ SubSeq(chat_history', 1, Len(chat_history)) = chat_history
          /\ chat_history'[Len(chat_history) + 1] =
                 Msg("user", NamedQuestion(user_name, turn'.pergunta))
          /\ chat_history'[Len(chat_history) + 2].role = "assistant"
          /\ chat_history'[Len(chat_history) + 2].content.text = CompletionError ]_vars

\* C11: a run whose chain.invoke fails ends normally with the user entry of
\* the turn and then an assistant message carrying the failure reason appended
\* to the earlier entries; a run whose make_llm() fails ends normally with
\* only the user entry of the turn appended (the error is shown outside the
\* chat); the earlier entries are unchanged in both.
C11_LlmFailureRecorded ==
    [][ (turn'.compactar_called
           /\ turn'.branch \in {"llm_init_error", "model_call_failed"}) =>
          /\ pc' = "idle" /\ rendered'
          /\ SubSeq(chat_history', 1, Len(chat_history)) = chat_history
          /\ chat_history'[Len(chat_history) + 1] =
                 Msg("user", NamedQuestion(user_name, turn'.pergunta))
          /\ IF turn'.branch = "model_call_failed"
             THEN /\ Len(chat_history') = Len(chat_history) + 2
                  /\ chat_history'[Len(chat_history) + 2].role = "assistant"
                  /\ chat_history'[Len(chat_history) + 2].content.kind =
                         "model_call_failed"
                  /\ chat_history'[Len(chat_history) + 2].content.text =
                         CompletionError
             ELSE /\ Len(chat_history') = Len(chat_history) + 1
                  /\ ~turn'.llm_invoked ]_vars

\* the completion call of a typed question fails: greeting, name exchange,
\* the question and the failure message
C11_Witness ==
    /\ turn.branch = "model_call_failed"
    /\ turn.event = "chat"
    /\ Len(chat_history) = 5
    /\ LastMsg.content.text = CompletionError

RECURSIVE Picked(_, _, _)
\* the units of docs whose position is in I, in their order, from position i
Picked(docs, I, i) ==
    IF i > Len(docs) THEN <<>>
    ELSE (IF i \in I THEN <<docs[i]>> ELSE <<>>) \o Picked(docs, I, i + 1)

\* the stripped texts of the units
Stripped(docs) == [i \in 1..Len(docs) |-> strip(docs[i].page_content)]

\* C14: after a turn that called the LLM, the citations shown are, one for one
\* and in order, the (page + 1, source) of the units whose texts make up the
\* compacted context: some non-blank units of the assembled context, in their
\* order, whose stripped texts joined by the delimiter are the context sent.
C14_CitationsMatchContext ==
    turn.llm_invoked =>
        \E I \in SUBSET (1..Len(turn.docs)) :
            /\ \A i \in I : Len(strip(turn.docs[i].page_content)) > 0
            /\ join(Delimiter, Stripped(Picked(turn.docs, I, 1))) = turn.contexto
            /\ turn.sources_shown =
                  [i \in 1..Cardinality(I) |->
                      << Picked(turn.docs, I, 1)[i].metadata.page + 1,
                         Picked(turn.docs, I, 1)[i].metadata.source >>]

\* C15: a run whose indexar_pdf raises while loading the pages keeps the index,
\* the page list and the cache key of before the upload, so that the same
\* bytes still need indexing, and leaves the rest of the session state, the
\* conversation, as it was.
C15_ParseFailureKeepsSession ==
    [][ (turn'.indexar_calls = 1 /\ turn'.result.raised = "parse") =>
          /\ vectordb' = vectordb
          /\ docs_paginas' = docs_paginas
          /\ vectordb_key' = vectordb_key
          /\ NeedIndex(vectordb_key', _hash_bytes(Val(pdf_file').bytes))
          /\ pc' = "idle"
          /\ chat_history' = chat_history
          /\ user_name' = user_name
          /\ initial_greeting_done' = initial_greeting_done ]_vars

\* C18: when the context assembled around a resolved page that has text is
\* compacted, and no page of it is longer than the budget, the compacted
\* context contains the text of the resolved page.
C18_RequestedPageInContext ==
    (turn.compactar_called /\ ~IsNone(turn.pagina0)
       /\ Len(strip(docs_paginas[Val(turn.pagina0) + 1].page_content)) > 0
       /\ \A i \in 1..Len(turn.docs) :
             TLen(strip(turn.docs[i].page_content)) <= LIMITE_CHARS) =>
        Contains(turn.contexto,
                 strip(docs_paginas[Val(turn.pagina0) + 1].page_content))

\* C19: the context of a run that invoked the completion is not empty.
C19_ContextNeverEmpty ==
    turn.llm_invoked => TLen(turn.contexto) > 0

\* the greeting of the indexed document, in some language
IsGreeting(m) ==
    \E l \in Langs : m = Msg("assistant", first_msg(l, FileName(docs_paginas)))

\* C20: a non-empty history starts with the assistant greeting;
\* initial_greeting_done holds only with the greeting in the history; and the
\* history, which is emptied by every reset, holds at most one greeting.
C20_GreetingInvariant ==
    /\ Len(chat_history) > 0 => IsGreeting(chat_history[1])
    /\ initial_greeting_done =>
          (Len(chat_history) > 0 /\ IsGreeting(chat_history[1]))
    /\ \A i \in 2..Len(chat_history) : chat_history[i].content.kind # "first_msg"

\* the history was cleared and the rerun has greeted again, once
C20_Witness ==
    /\ turn.event = "rerun"
    /\ turn.greeted
    /\ Len(chat_history) = 1
    /\ initial_greeting_done
    /\ IsGreeting(chat_history[1])

\* C21: the run of the clear-history click leaves the history empty, the
\* greeting flag false and the name empty, and leaves vectordb, docs_paginas,
\* vectordb_key and app_lang as they were; the run that follows it, with the
\* same uploaded file, sees no need to index and does not call indexar_pdf.
C21_ClearResetsConversationOnly ==
    [][/\ turn'.branch = "clear" =>
             /\ chat_history' = <<>>
             /\ initial_greeting_done' = FALSE
             /\ user_name' = <<>>
             /\ vectordb' = vectordb
             /\ docs_paginas' = docs_paginas
             /\ vectordb_key' = vectordb_key
             /\ app_lang' = app_lang
             /\ turn'.indexar_calls = 0
       /\ (turn.branch = "clear" /\ pdf_file' = pdf_file) =>
             /\ turn'.uploaded
             /\ ~turn'.need_index
             /\ turn'.indexar_calls = 0
             /\ vectordb' = vectordb
             /\ docs_paginas' = docs_paginas
             /\ vectordb_key' = vectordb_key]_vars

\* a named conversation over an indexed document was cleared, and the run
\* after the click reached the assistant with the same index, not rebuilt
C21_Witness ==
    /\ turn.event = "rerun"
    /\ turn.uploaded
    /\ turn.indexar_calls = 0
    /\ turn.assistant
    /\ turn.mid.chat_history = <<>>
    /\ turn.mid.user_name = <<>>
    /\ ~IsNone(vectordb)
    /\ vectordb_key = Some(_hash_bytes(Val(pdf_file).bytes))

\* C22: a run for a typed message that finds the stored user_name empty takes
\* the message as the name answer: the history grows by exactly the raw
\* message as a user entry and one assistant acknowledgement, the run
\* classifies no intent, assembles no context, queries no index, compacts
\* nothing and builds and calls no LLM, and user_name is non-empty afterwards
\* exactly when _extrair_primeiro_nome gave a non-empty token, which it then is.
C22_NameCaptureGate ==
    [][(turn'.event = "chat" /\ turn'.assistant /\ Len(turn'.mid.user_name) = 0) =>
          /\ turn'.branch = "name"
          /\ Len(chat_history') = Len(chat_history) + 2
          /\ SubSeq(chat_history', 1, Len(chat_history)) = chat_history
          /\ chat_history'[Len(chat_history) + 1]
                = Msg("user", RawQuestion(turn'.pergunta))
          /\ chat_history'[Len(chat_history) + 2].role = "assistant"
          /\ chat_history'[Len(chat_history) + 2].content.kind
                \in {"name_reply", "name_reply_anon"}
          /\ ~turn'.classified
          /\ ~turn'.montar_called
          /\ ~turn'.queried
          /\ ~turn'.compactar_called
          /\ ~turn'.llm_built
          /\ ~turn'.llm_invoked
          /\ Len(user_name') > 0 <=> Len(_extrair_primeiro_nome(turn'.pergunta)) > 0
          /\ Len(user_name') > 0 => user_name' = _extrair_primeiro_nome(turn'.pergunta)
      ]_vars

\* a question typed before any name is known was taken as the name answer:
\* its first word is the stored name and nothing was classified or retrieved
C22_Witness ==
    /\ turn.branch = "name"
    /\ turn.pergunta = Chars("how many pages?")
    /\ turn.mid.user_name = <<>>
    /\ user_name = Chars("how")
    /\ ~turn.classified
    /\ LastMsg.content.kind = "name_reply"
    /\ chat_history[Len(chat_history) - 1] = Msg("user", RawQuestion(turn.pergunta))

\* the answer held no usable token: acknowledged, and the name stays empty
C22_WitnessAnonymous ==
    /\ turn.branch = "name"
    /\ turn.pergunta = Chars("!")
    /\ user_name = <<>>
    /\ LastMsg.content.kind = "name_reply_anon"

(***************************************************************************)
(* The context utilities on their own: a call with arguments drawn from    *)
(* bounded sets, then its return.  The session is at rest meanwhile.       *)
(***************************************************************************)
svars == <<app_lang, user_name, chat_history, initial_greeting_done,
           vectordb_key, vectordb, docs_paginas, pdf_file, pc, rendered,
           nlang, turn>>

SessionAtRest ==
    /\ app_lang = "pt"
    /\ user_name = <<>>
    /\ chat_history = <<>>
    /\ initial_greeting_done = FALSE
    /\ vectordb_key = None
    /\ vectordb = None
    /\ docs_paginas = <<>>
    /\ pdf_file = None
    /\ pc = "fn"
    /\ rendered = FALSE
    /\ nlang = 0
    /\ turn = TurnDefault

\* ---- _compactar_docs ----
MaxUnits == 3

UnitTexts ==
    { <<Run(" ", 3)>>,
      <<Run(" ", 1), Run("c", 20), Run("\n", 1)>>,
      <<Run("a", 2600)>>,
      <<Run("b", 2600)>> }

Budgets == {0, 40, LIMITE_CHARS}

DocLists ==
    UNION { { [i \in 1..n |-> Document(ts[i], i - 1, "manual.pdf")] :
              ts \in [1..n -> UnitTexts] } : n \in 0..MaxUnits }

InitCompactar ==
    /\ SessionAtRest
    /\ fn \in { [op |-> "call", name |-> "_compactar_docs", docs |-> d,
                 limite_chars |-> l] : d \in DocLists, l \in Budgets }

Compactar ==
    /\ fn.op = "call"
    /\ fn.name = "_compactar_docs"
    /\ fn' = [op |-> "return", name |-> fn.name, docs |-> fn.docs,
              limite_chars |-> fn.limite_chars,
              out |-> _compactar_docs(fn.docs, fn.limite_chars)]
    /\ UNCHANGED svars

NextCompactar == Compactar

SpecCompactar == InitCompactar /\ [][NextCompactar]_vars

RECURSIVE StrippedUnits(_)
\* the non-blank unit texts, stripped, in their order
StrippedUnits(docs) ==
    IF Len(docs) = 0 THEN <<>>
    ELSE LET t == strip(Head(docs).page_content)
         IN (IF Len(t) = 0 THEN <<>> ELSE <<t>>) \o StrippedUnits(Tail(docs))

\* C3: the string _compactar_docs returns is no longer than the budget, and
\* it is whole unit texts in their original order joined by the delimiter.
C3_CompactionWithinBudget ==
    (fn.op = "return" /\ fn.name = "_compactar_docs") =>
        /\ TLen(fn.out) <= fn.limite_chars
        /\ \E k \in 0..Len(StrippedUnits(fn.docs)) :
              fn.out = join(Delimiter, SubSeq(StrippedUnits(fn.docs), 1, k))

\* ---- _montar_contexto on a page of the document ----
MaxPages == 4
MaxRadius == 2

\* a document of n pages, each with some text
PagesOf(n) == [i \in 1..n |-> Document(<<Run("t", i)>>, i - 1, "manual.pdf")]

\* the page p (0-based) comes from the page button or from the question
PageCalls ==
    { [op |-> "call", name |-> "_montar_contexto",
       pergunta |-> IF typed THEN PageQuestion("en", p + 1) ELSE <<>>,
       docs_paginas |-> PagesOf(n), incluir_vizinhas |-> r,
       pagina_forcada |-> IF typed THEN None ELSE Some(p), pagina |-> p] :
      n \in 1..MaxPages, p \in 0..(MaxPages - 1), r \in 0..MaxRadius,
      typed \in BOOLEAN }

InitContexto ==
    /\ SessionAtRest
    /\ fn \in {c \in PageCalls : c.pagina < Len(c.docs_paginas)}

MontarContexto ==
    /\ fn.op = "call"
    /\ fn.name = "_montar_contexto"
    /\ fn' = [fn EXCEPT !.op = "return"] @@
             [out |-> _montar_contexto(fn.pergunta, fn.docs_paginas,
                                       Retriever("bm25", RETRIEVER_K, <<>>), K_FIXO,
                                       fn.incluir_vizinhas, fn.pagina_forcada,
                                       word_page_patterns("en"), 0)]
    /\ UNCHANGED svars

NextContexto == MontarContexto

SpecContexto == InitContexto /\ [][NextContexto]_vars

\* C5: for a page p of an N-page document and a radius r, the context is the
\* pages max(p-r,0) .. min(p+r,N-1) in ascending order, page p among them, and
\* the citations are the (page, source) of each page of the context, in order.
C5_PageSlice ==
    (fn.op = "return" /\ fn.name = "_montar_contexto") =>
        LET p == fn.pagina
            r == fn.incluir_vizinhas
            N == Len(fn.docs_paginas)
            lo == Max(p - r, 0)
            hi == Min(p + r, N - 1)
            docs == fn.out.docs
            info == fn.out.info
        IN /\ Len(docs) = hi - lo + 1
           /\ \A i \in 1..Len(docs) : docs[i] = fn.docs_paginas[lo + i]
           /\ docs[p - lo + 1] = fn.docs_paginas[p + 1]
           /\ Len(info) = Len(docs)
           /\ \A i \in 1..Len(docs) :
                 info[i] = <<docs[i].metadata.page, docs[i].metadata.source>>
           /\ fn.out.pagina0 = Some(p)
           /\ ~fn.out.queried

\* the last page of four with radius 2: clipped on the right only
C5_Witness ==
    /\ fn.op = "return"
    /\ fn.name = "_montar_contexto"
    /\ fn.pagina = 3
    /\ fn.incluir_vizinhas = 2
    /\ Len(fn.docs_paginas) = 4
    /\ Len(fn.out.docs) = 3

\* ---- _extrair_pagina ----
QPrefixes == {<<>>, Chars("see "), Chars("x"), Chars("pg 7 "), Chars("pag. 5, ")}
QKeywords ==
    { Chars("page"), Chars("Page"), Chars("pg"), Chars("pagina"), Chars("pag"),
      <<"P", "a'", "g", "i", "n", "a">>, Chars("p") }
QSeparators == {<<>>, Chars(" "), Chars(". ")}
QNumbers == {<<>>, Chars("0"), Chars("3"), Chars("10")}
QSuffixes == {<<>>, Chars("b"), Chars(" please")}

Perguntas ==
    {<<>>, Chars("turbine")} \cup
    { a \o k \o s \o n \o z :
      a \in QPrefixes, k \in QKeywords, s \in QSeparators, n \in QNumbers,
      z \in QSuffixes }

InitPagina ==
    /\ SessionAtRest
    /\ fn \in { [op |-> "call", name |-> "_extrair_pagina", pergunta |-> q,
                 lang |-> l] : q \in Perguntas, l \in Langs }

ExtrairPagina ==
    /\ fn.op = "call"
    /\ fn.name = "_extrair_pagina"
    /\ fn' = [op |-> "return", name |-> fn.name, pergunta |-> fn.pergunta,
              lang |-> fn.lang,
              out |-> _extrair_pagina(fn.pergunta, word_page_patterns(fn.lang))]
    /\ UNCHANGED svars

NextPagina == ExtrairPagina

SpecPagina == InitPagina /\ [][NextPagina]_vars

\* C6: the result is that of the first pattern of the locale's list, in list
\* order, that matches the normalised lower-cased question: max(n-1, 0) for
\* its captured number n; None when no pattern matches or the question is
\* empty.  "see page 10" gives 9 (en), "pagina 3" gives 2 (it, pt).
C6_FirstPatternWins ==
    (fn.op = "return" /\ fn.name = "_extrair_pagina") =>
        LET norm == _normalize(lower(fn.pergunta))
            pats == word_page_patterns(fn.lang)
            hit(k) == ReSearch(NormalizePat(pats[k]), norm)
            hits == {k \in 1..Len(pats) : ~IsNone(hit(k))}
        IN /\ IF Len(fn.pergunta) = 0 \/ hits = {}
              THEN fn.out = None
              ELSE LET k == CHOOSE k \in hits : \A j \in hits : k <= j
                   IN fn.out = Some(Max(ParseInt(Val(hit(k))) - 1, 0))
           /\ (fn.pergunta = Chars("see page 10") /\ fn.lang = "en") =>
                 fn.out = Some(9)
           /\ (fn.pergunta = Chars("pagina 3") /\ fn.lang \in {"it", "pt"}) =>
                 fn.out = Some(2)

\* "pg 7 page 3" in English: the first pattern (page) matches later in the
\* question than the second (pg) and still decides
C6_Witness ==
    /\ fn.op = "return"
    /\ fn.name = "_extrair_pagina"
    /\ fn.pergunta = Chars("pg 7 page 3")
    /\ fn.lang = "en"
    /\ fn.out = Some(2)

\* ---- _extrair_primeiro_nome ----
NGreetings == {<<>>, Chars("Hi, "), Chars("ciao ")}
NIntros ==
    { <<>>, Chars("my name is "), Chars("I am "), Chars("I'm "),
      Chars("me chamo "), Chars("mi chiamo "), Chars("sono "),
      Chars("Meu nome ") \o <<"e'", " ">> }
NNames == {<<>>, Chars("Jonas"), Chars("Ana"), Chars("hello")}
NSuffixes == {<<>>, Chars(", nice to meet you"), Chars("!")}

\* what a user answers to "how should I call you?": a greeting, a
\* self-introduction phrase, a name and some closing words, each optional
Respostas ==
    { [op |-> "call", name |-> "_extrair_primeiro_nome",
       resposta |-> g \o i \o n \o z, intro |-> i, nome |-> n] :
      g \in NGreetings, i \in NIntros, n \in NNames, z \in NSuffixes }

InitNome ==
    /\ SessionAtRest
    /\ fn \in Respostas

ExtrairPrimeiroNome ==
    /\ fn.op = "call"
    /\ fn.name = "_extrair_primeiro_nome"
    /\ fn' = [fn EXCEPT !.op = "return"] @@
             [out |-> _extrair_primeiro_nome(fn.resposta)]
    /\ UNCHANGED svars

NextNome == ExtrairPrimeiroNome

SpecNome == InitNome /\ [][NextNome]_vars

\* C12: for an answer made of a self-introduction phrase followed by a name
\* that is no greeting, _extrair_primeiro_nome returns that name; "Hi, I'm
\* Jonas, nice to meet you" gives "Jonas".
C12_SelfIntroductionName ==
    (fn.op = "return" /\ fn.name = "_extrair_primeiro_nome") =>
        /\ (Len(fn.intro) > 0 /\ Len(fn.nome) > 0
              /\ lower(fn.nome) \notin stopwords_iniciais) => fn.out = fn.nome
        /\ fn.resposta = Chars("Hi, I'm Jonas, nice to meet you") =>
              fn.out = Chars("Jonas")

\* C13: when every word of the answer, punctuation taken as space, is a
\* greeting stop-word (no word at all included), _extrair_primeiro_nome
\* returns ""; what it returns is never a greeting stop-word.
C13_NoUsableTokenEmpty ==
    (fn.op = "return" /\ fn.name = "_extrair_primeiro_nome") =>
        LET words == split(Unpunctuate(fn.resposta))
        IN /\ (\A i \in 1..Len(words) : lower(words[i]) \in stopwords_iniciais) =>
                 fn.out = <<>>
           /\ lower(fn.out) \notin stopwords_iniciais

\* ---- _detectar_tema_pdf ----
MaxTemaDocs == 2

\* s repeated to n characters
Repeated(s, n) == [i \in 1..n |-> s[((i - 1) % Len(s)) + 1]]

\* page texts: none, blank, a title among an address and a run of one letter,
\* two titles, a sentence among short and mostly-punctuation lines, only
\* noise, a title after forty other lines, a title line of 126 characters
TemaTexts ==
    { <<>>,
      Chars("  \n \t\n"),
      Chars("Manuale d'uso\r\nVia Roma 12\niiiiiii\n"),
      Chars(" Robot Motoman \n\nManuale d'uso\n"),
      Chars("12345 !!! ---\nabc\nQuesto documento descrive il sistema\n"),
      Chars("info@acme.com\nlowercase line here\nTitolo\n"),
      Repeated(Chars("z\n"), 80) \o Chars("Guia do sistema"),
      Repeated(Chars("Robot "), 126) \o Chars("\nIntrodu") \o <<"c", "a'", "o">> \o Chars(" geral") }

TemaDoc(texts) == [i \in 1..Len(texts) |-> Document(texts[i], i - 1, "manual.pdf")]

\* documents of up to MaxTemaDocs pages, and documents whose sixth page is
\* the first with a title
TemaDocLists ==
    UNION { { TemaDoc(ts) : ts \in [1..n -> TemaTexts] } : n \in 0..MaxTemaDocs }
    \cup { TemaDoc([i \in 1..6 |-> IF i = 6 THEN t ELSE u]) :
             t \in TemaTexts, u \in {<<>>, Chars("lowercase line here")} }

InitTema ==
    /\ SessionAtRest
    /\ fn \in { [op |-> "call", name |-> "_detectar_tema_pdf", docs_paginas |-> d] :
                 d \in TemaDocLists }

DetectarTema ==
    /\ fn.op = "call"
    /\ fn.name = "_detectar_tema_pdf"
    /\ fn' = [fn EXCEPT !.op = "return"] @@
             [out |-> _detectar_tema_pdf(fn.docs_paginas)]
    /\ UNCHANGED svars

NextTema == DetectarTema

SpecTema == InitTema /\ [][NextTema]_vars

\* the lines of page i of the document the function was given
TemaLines(i) == LinesOf(sstrip(fn.docs_paginas[i].page_content))

TemaLine(pos) == TemaLines(pos[1])[pos[2]]

\* the lines that survive: candidate lines among the first MAX_TEMA_LINES
\* non-blank lines of the first MAX_TEMA_PAGES pages, as (page, line)
Survivors ==
    UNION { { <<i, j>> : j \in { k \in 1..Min(MAX_TEMA_LINES, Len(TemaLines(i))) :
                                   IsCandidate(TemaLines(i)[k]) } } :
            i \in 1..Min(MAX_TEMA_PAGES, Len(fn.docs_paginas)) }

\* a comes no later than b in reading order
NoLater(a, b) == a[1] < b[1] \/ (a[1] = b[1] /\ a[2] <= b[2])

FirstIn(S) == CHOOSE a \in S : \A b \in S : NoLater(a, b)

\* C16: _detectar_tema_pdf returns for every page list; it returns the
\* placeholder exactly when no line survives, and otherwise the first
\* surviving line alone when all surviving lines are equal to it, else that
\* line, " -- " and the first surviving line that differs from it.
C16_ThemeTotal ==
    (fn.op = "return" /\ fn.name = "_detectar_tema_pdf") =>
        /\ (fn.out = TEMA_PLACEHOLDER) <=> (Survivors = {})
        /\ Survivors # {} =>
              LET c1 == TemaLine(FirstIn(Survivors))
                  others == {b \in Survivors : TemaLine(b) # c1}
              IN IF others = {} THEN fn.out = c1
                 ELSE fn.out = c1 \o <<" ", "--", " ">> \o TemaLine(FirstIn(others))

\* two pages that share a title: it is named once, followed by the other
C16_Witness ==
    /\ fn.op = "return"
    /\ fn.name = "_detectar_tema_pdf"
    /\ Len(fn.docs_paginas) = 2
    /\ fn.out = Chars("Manuale d'uso") \o TEMA_SEPARATOR \o Chars("Robot Motoman")
    /\ Cardinality(Survivors) = 3

\* ---- _montar_contexto with a forced page and a question ----
MaxForcada == 3

ForcedQuestions == {<<>>, Chars("turbine"), Chars("page 2"), Chars("see page 9")}

\* the page button gives pagina_forcada, the chat input gives the question;
\* the function takes any combination of the two
ForcedCalls ==
    { [op |-> "call", name |-> "_montar_contexto", pergunta |-> q,
       docs_paginas |-> PagesOf(n), incluir_vizinhas |-> r, pagina_forcada |-> f] :
      q \in ForcedQuestions, n \in 1..MaxPages, r \in 0..MaxRadius,
      f \in {None} \cup {Some(p) : p \in 0..MaxForcada} }

InitForcada ==
    /\ SessionAtRest
    /\ fn \in ForcedCalls

NextForcada == MontarContexto

SpecForcada == InitForcada /\ [][NextForcada]_vars

\* C17: when pagina_forcada is not None the resolved page is pagina_forcada
\* and the question is not parsed, whatever page it names; the question is
\* parsed exactly when pagina_forcada is None and the question is not empty,
\* and the resolved page is then what _extrair_pagina finds in it.
C17_ForcedPagePrecedence ==
    (fn.op = "return" /\ fn.name = "_montar_contexto") =>
        /\ ~IsNone(fn.pagina_forcada) =>
              /\ fn.out.pagina0 = fn.pagina_forcada
              /\ ~fn.out.parsed
              /\ Val(fn.pagina_forcada) < Len(fn.docs_paginas) =>
                    \E i \in 1..Len(fn.out.docs) :
                        fn.out.docs[i].metadata.page = Val(fn.pagina_forcada)
        /\ fn.out.parsed <=> (IsNone(fn.pagina_forcada) /\ Len(fn.pergunta) > 0)
        /\ fn.out.parsed =>
              fn.out.pagina0 = _extrair_pagina(fn.pergunta, word_page_patterns("en"))
        /\ (IsNone(fn.pagina_forcada) /\ Len(fn.pergunta) = 0) =>
              IsNone(fn.out.pagina0)

\* page 1 is forced while the question names page 2
C17_Witness ==
    /\ fn.op = "return"
    /\ fn.name = "_montar_contexto"
    /\ fn.pagina_forcada = Some(0)
    /\ fn.pergunta = Chars("page 2")
    /\ fn.out.pagina0 = Some(0)
    /\ Len(fn.docs_paginas) = 4
    /\ fn.out.docs[1].metadata.page = 0

====
